---- MODULE Spec2Model ----
(***************************************************************************)
(* Model of cmd/gobind/mmc_importer.go: the "minimum module compatibility" *)
(* importer (mmcImporter.Import), the path rewriting it performs          *)
(* (removeMajorVersionFromPath) and the version-segment test (isVNPart).   *)
(*                                                                         *)
(* A Go string is modelled as a sequence of one-character strings.         *)
(***************************************************************************)
EXTENDS Integers, Sequences, FiniteSets, TLC

(***************************************************************************)
(* Bounds of the model.                                                    *)
(***************************************************************************)
\* longest input string drawn character by character from Alphabet
MaxLen == 5
\* largest number of '/'-separated segments of an input built from SegTokens
MaxSegs == 3

(***************************************************************************)
(* Characters.                                                             *)
(***************************************************************************)
Quote == "\""
Slash == "/"
DigitChars == {"0", "1", "2", "3", "4", "5", "6", "7", "8", "9"}
SignChars == {"+", "-"}
\* the blanks fmt's SkipSpace steps over (a newline is an error instead)
SpaceChars == {" "}

DigitVal(c) ==
  CASE c = "0" -> 0 [] c = "1" -> 1 [] c = "2" -> 2 [] c = "3" -> 3
    [] c = "4" -> 4 [] c = "5" -> 5 [] c = "6" -> 6 [] c = "7" -> 7
    [] c = "8" -> 8 [] c = "9" -> 9

(***************************************************************************)
(* strings.Split, strings.Join, strings.HasSuffix                          *)
(***************************************************************************)
RECURSIVE SplitFrom(_, _, _)
\* parts of s from position i on, cur being the part collected so far
SplitFrom(s, i, cur) ==
  IF i > Len(s) THEN <<cur>>
  ELSE IF s[i] = Slash THEN <<cur>> \o SplitFrom(s, i + 1, <<>>)
  ELSE SplitFrom(s, i + 1, Append(cur, s[i]))

\* strings.Split(s, "/"): always at least one part, "" splits into <<"">>
Split(s) == SplitFrom(s, 1, <<>>)

RECURSIVE Join(_)
\* strings.Join(parts, "/"): "" for no parts
Join(parts) ==
  IF Len(parts) = 0 THEN <<>>
  ELSE IF Len(parts) = 1 THEN parts[1]
  ELSE parts[1] \o <<Slash>> \o Join(Tail(parts))

\* strings.HasSuffix(s, "\"")
HasQuoteSuffix(s) == Len(s) > 0 /\ s[Len(s)] = Quote

(***************************************************************************)
(* fmt.Fscanf(strings.NewReader(s), "v%d", &v)                             *)
(***************************************************************************)
RECURSIVE SkipSpace(_)
\* ss.SkipSpace: drop leading blanks
SkipSpace(s) ==
  IF Len(s) > 0 /\ Head(s) \in SpaceChars THEN SkipSpace(Tail(s)) ELSE s

\* ss.accept(sign): consume one optional sign
AcceptSign(s) ==
  IF Len(s) > 0 /\ Head(s) \in SignChars THEN Tail(s) ELSE s

RECURSIVE ScanNumber(_)
\* ss.scanNumber: the longest run of decimal digits at the front of s
ScanNumber(s) ==
  IF Len(s) > 0 /\ Head(s) \in DigitChars
  THEN <<Head(s)>> \o ScanNumber(Tail(s))
  ELSE <<>>

RECURSIVE TrimZeros(_)
TrimZeros(d) ==
  IF Len(d) > 1 /\ Head(d) = "0" THEN TrimZeros(Tail(d)) ELSE d

\* decimal digits of 2^63 - 1 and of 2^63, the magnitudes int64 can hold
MaxInt64Digits ==
  <<"9","2","2","3","3","7","2","0","3","6","8","5","4","7","7","5","8","0","7">>
MinInt64Digits ==
  <<"9","2","2","3","3","7","2","0","3","6","8","5","4","7","7","5","8","0","8">>

RECURSIVE DigitsLeq(_, _)
\* a <= b for two digit strings of the same length
DigitsLeq(a, b) ==
  IF Len(a) = 0 THEN TRUE
  ELSE IF DigitVal(Head(a)) < DigitVal(Head(b)) THEN TRUE
  ELSE IF DigitVal(Head(a)) > DigitVal(Head(b)) THEN FALSE
  ELSE DigitsLeq(Tail(a), Tail(b))

\* strconv.ParseInt(tok, 10, 64) succeeds: the digits fit a 64 bit integer
ParseIntOK(negative, digits) ==
  LET d == TrimZeros(digits)
      lim == IF negative THEN MinInt64Digits ELSE MaxInt64Digits
  IN  \/ Len(d) < Len(lim)
      \/ Len(d) = Len(lim) /\ DigitsLeq(d, lim)

\* ss.scanInt for %d: blanks, an optional sign, at least one digit, in range
ScanIntOK(s) ==
  LET afterSpace == SkipSpace(s)
      afterSign == AcceptSign(afterSpace)
      tok == ScanNumber(afterSign)
  IN  /\ Len(afterSpace) > 0
      /\ Len(afterSign) > 0
      /\ Len(tok) > 0
      /\ ParseIntOK(Head(afterSpace) = "-", tok)

\* Fscanf with format "v%d": the literal v, then %d; input left over after
\* the number is not read and is no error
FscanfVD(s) == Len(s) > 0 /\ Head(s) = "v" /\ ScanIntOK(Tail(s))

(***************************************************************************)
(* isVNPart                                                                *)
(***************************************************************************)
isVNPart(s) == FscanfVD(s)

(***************************************************************************)
(* removeMajorVersionFromPath                                              *)
(***************************************************************************)
RECURSIVE StripLoop_AnyQuote(_, _, _, _)
\* StripLoop, but a dropped part's quote is remembered wherever the part is
StripLoop_AnyQuote(parts, i, nonVN, endQuote) ==
  IF i > Len(parts) THEN [nonVN |-> nonVN, endQuote |-> endQuote]
  ELSE IF isVNPart(parts[i])
       THEN StripLoop_AnyQuote(parts, i + 1, nonVN, HasQuoteSuffix(parts[i]))
       ELSE StripLoop_AnyQuote(parts, i + 1, Append(nonVN, parts[i]), endQuote)

RECURSIVE StripLoop(_, _, _, _)
\* the for loop over parts, from index i on: the locals at loop exit
StripLoop(parts, i, nonVN, endQuote) ==
  IF i > Len(parts) THEN [nonVN |-> nonVN, endQuote |-> endQuote]
  ELSE IF isVNPart(parts[i])
       THEN StripLoop(parts, i + 1, nonVN,
                      i = Len(parts) /\ HasQuoteSuffix(parts[i]))
       ELSE StripLoop(parts, i + 1, Append(nonVN, parts[i]), endQuote)

\* removeMajorVersionFromPath, but the quote is appended whenever the path
\* ends with one
removeMajorVersionFromPath_QuoteOfPath(pkgPath) ==
  LET loop == StripLoop(Split(pkgPath), 1, <<>>, FALSE)
      joined == Join(loop.nonVN)
      r == IF HasQuoteSuffix(pkgPath) THEN joined \o <<Quote>> ELSE joined
  IN  [r |-> r, n |-> Len(pkgPath) - Len(r)]

\* removeMajorVersionFromPath, but the count is taken the wrong way round
removeMajorVersionFromPath_CountSwapped(pkgPath) ==
  LET loop == StripLoop(Split(pkgPath), 1, <<>>, FALSE)
      joined == Join(loop.nonVN)
      r == IF loop.endQuote THEN joined \o <<Quote>> ELSE joined
  IN  [r |-> r, n |-> Len(r) - Len(pkgPath)]

removeMajorVersionFromPath(pkgPath) ==
  LET loop == StripLoop(Split(pkgPath), 1, <<>>, FALSE)
      joined == Join(loop.nonVN)
      r == IF loop.endQuote THEN joined \o <<Quote>> ELSE joined
  IN  [r |-> r, n |-> Len(pkgPath) - Len(r)]

(***************************************************************************)
(* Inputs of the string functions.                                         *)
(***************************************************************************)
\* one character of each class the scanner tells apart, and the separator
Alphabet == {"v", "1", Slash, Quote, "a", "-", " "}

\* all strings over Alphabet of length at most n
RECURSIVE StringsUpTo(_)
StringsUpTo(n) ==
  IF n = 0 THEN {<<>>}
  ELSE LET shorter == StringsUpTo(n - 1)
       IN  shorter \cup {Append(s, c) : s \in shorter, c \in Alphabet}

\* whole segments, after the paths of the repository's tests: pkg, v6, v33",
\* gomobile-v2mod, v2mod, "lib, pkg", v+2, and a version number too large
\* for a 64 bit integer
SegTokens ==
  { <<"a">>,
    <<"v", "6">>,
    <<"v", "3", "3", Quote>>,
    <<"g", "-", "v", "2", "m">>,
    <<"v", "2", "m">>,
    <<Quote, "l">>,
    <<"p", Quote>>,
    <<"v", "+", "2">>,
    <<"v", "9", "9", "9", "9", "9", "9", "9", "9", "9", "9",
           "9", "9", "9", "9", "9", "9", "9", "9", "9", "9">> }

\* all paths of at most n segments taken from SegTokens
RECURSIVE PathsUpTo(_)
PathsUpTo(n) ==
  IF n = 1 THEN SegTokens
  ELSE LET shorter == PathsUpTo(n - 1)
       IN  shorter \cup {p \o <<Slash>> \o t : p \in shorter, t \in SegTokens}

Inputs == StringsUpTo(MaxLen) \cup PathsUpTo(MaxSegs)

(***************************************************************************)
(* The source tree under GOPATH/src that the importer reads: packages,     *)
(* their Go files and the import literals of each file.                    *)
(***************************************************************************)
\* deepest nesting of Import calls (checker calling back into the importer)
\* the goroutine's stack has room for; more than there are packages, so that
\* only a path imported again while it is being imported can exhaust it
MaxDepth == 5
\* number of Import calls made by the user of the importer
MaxCalls == 2
\* number of goroutines that call Import on one importer at the same time
NumThreads == 2

\* the character that delimits a raw string literal (written out, as the
\* character itself cannot appear in a string here)
Backtick == "backtick"

PathA == <<"a">>
PathB == <<"b">>
PathC == <<"c">>
PathBv2 == <<"b", Slash, "v", "2">>

PkgPaths == {PathA, PathB, PathC, PathBv2}

\* the paths the user of the importer asks for
Requests == {PathA, PathBv2}

\* an interpreted string literal and a raw string literal of text p
Lit(p) == <<Quote>> \o p \o <<Quote>>
RawLit(p) == <<Backtick>> \o p \o <<Backtick>>

\* build.Package.GoFiles of the package in directory GOPATH/src/path
GoFiles(path) ==
  CASE path = PathA -> <<"a1.go", "a2.go">>
    [] path = PathB -> <<"b1.go">>
    [] path = PathC -> <<"c1.go">>
    [] path = PathBv2 -> <<"b1.go">>

\* ast.File.Imports of a file as parsed: the literals as written
\*   a imports c and b/v2;  b imports a/v3 (a cycle once stripped);
\*   c imports c/v2 (itself once stripped);  b/v2 imports c/v2, written as a raw literal
ImportsOf(fp) ==
  CASE fp = <<PathA, "a1.go">> -> <<Lit(PathC), Lit(<<"b", Slash, "v", "2">>)>>
    [] fp = <<PathA, "a2.go">> -> <<Lit(PathC)>>
    [] fp = <<PathB, "b1.go">> -> <<Lit(<<"a", Slash, "v", "3">>)>>
    [] fp = <<PathC, "c1.go">> -> <<Lit(<<"c", Slash, "v", "2">>)>>
    [] fp = <<PathBv2, "b1.go">> -> <<RawLit(<<"c", Slash, "v", "2">>)>>

\* filepath.Join(imp.Ctx.GOPATH, "src", path): the directory is named by the
\* path as given
SrcDir(path) == path

\* filepath.Join(srcDir, name) for each listed file
FilePaths(srcDir, names) == [i \in DOMAIN names |-> <<srcDir, names[i]>>]

SeqToSet(q) == {q[i] : i \in DOMAIN q}

(***************************************************************************)
(* go/types: the import path of an import literal (validatedImportPath)    *)
(***************************************************************************)
\* strconv.Unquote succeeds: matching quotes around text free of that quote
UnquoteOK(lit) ==
  /\ Len(lit) >= 2
  /\ lit[1] \in {Quote, Backtick}
  /\ lit[Len(lit)] = lit[1]
  /\ \A i \in 2..(Len(lit) - 1) : lit[i] # lit[1]

Unquote(lit) == SubSeq(lit, 2, Len(lit) - 1)

\* the literal names an import path: it unquotes to a non-empty string
\* without blanks or quotes
ValidImportLit(lit) ==
  /\ UnquoteOK(lit)
  /\ Len(Unquote(lit)) > 0
  /\ \A i \in 1..Len(Unquote(lit)) : Unquote(lit)[i] \notin {Quote, Backtick, " "}

(***************************************************************************)
(* Values.                                                                 *)
(***************************************************************************)
NoErr == "nil"

\* *types.Package: nil, the baseline importer's package, a package the
\* checker completed, or the incomplete package of a failed check
NilPkg == [kind |-> "nil", path |-> <<>>]
StdPkg(path) == [kind |-> "std", path |-> path]
CheckedPkg(path) == [kind |-> "checked", path |-> path]
PartialPkg(path) == [kind |-> "partial", path |-> path]

NoRes == [pkg |-> NilPkg, err |-> "none"]

\* types.Config.Check: the package it returns is never nil; it is complete
\* only when there was no error
CheckResult(path, ok) ==
  IF ok THEN [pkg |-> CheckedPkg(path), err |-> NoErr]
  ELSE [pkg |-> PartialPkg(path), err |-> "check"]

\* the rewrite of the import literals of one parsed file (lines 69-78)
RewriteImports_FirstOnly(imports) ==
  [i \in DOMAIN imports |->
     IF i = 1 THEN removeMajorVersionFromPath(imports[i]).r ELSE imports[i]]

RewriteImports(imports) ==
  [i \in DOMAIN imports |-> removeMajorVersionFromPath(imports[i]).r]

\* the condition of line 48
BaselineSucceeded_Inverted(res) == res.err # NoErr

BaselineSucceeded(res) == res.err = NoErr

\* the import literals of the checked files, in the order the checker
\* meets them
RECURSIVE ImportDecls(_)
ImportDecls(trees) ==
  IF Len(trees) = 0 THEN <<>>
  ELSE Head(trees).imports \o ImportDecls(Tail(trees))

\* the activation record of one call of Import
NewFrame(path) ==
  [ path |-> path,
    pc |-> "entry",
    stdRes |-> NoRes,        \* result of imp.stdImporter.Import(path)
    used |-> 0,              \* the baseline handle that call went to
    srcDir |-> <<>>,         \* pkgSrcPath
    filePaths |-> <<>>,      \* filePaths of loadPackageSources
    fileSrcs |-> {},         \* keys of the map fileSrcs
    visited |-> {},          \* keys the range loop of line 61 has visited
    astf |-> <<>>,           \* <<tree>> while a parsed file is being rewritten
    astFiles |-> <<>>,
    parseLog |-> <<>>,       \* parser calls of this call: file, ok
    checked |-> <<>>,        \* the files handed to conf.Check
    todo |-> <<>>,           \* import literals the checker has yet to resolve
    impMap |-> {},           \* import paths the checker has resolved
    asked |-> <<>>,          \* <<path>> while a nested Import is running
    nested |-> <<>>,         \* the paths the checker has handed to imp.Import
    got |-> NoRes,           \* result of the nested Import
    nStd |-> 0, nFallback |-> 0, nList |-> 0, nRead |-> 0,
    nParse |-> 0, nCheck |-> 0 ]

(***************************************************************************)
(* State.                                                                  *)
(***************************************************************************)
VARIABLES
  sPc,      \* string functions: "idle", "start", "tested", "stripped", "restripped"
  sIn,      \* the argument
  sVN,      \* result of isVNPart(sIn)
  sLoop,    \* locals of removeMajorVersionFromPath(sIn) at loop exit
  sOut,     \* result of removeMajorVersionFromPath(sIn)
  sOut2,    \* result of removeMajorVersionFromPath(sOut.r)
  stack,        \* call stack of Import activations, innermost last
  stdImporter,  \* imp.stdImporter: 0 is nil, else the identity of the handle
  created,      \* number of handles created by importer.ForCompiler
  topCalls,     \* Import calls made by the user so far
  started,      \* per path: calls made by the caller of the importer
  stdTotal,     \* per path: baseline attempts of those calls
  stdFailed,    \* per path: baseline attempts of those calls that failed
  fbTotal,      \* per path: fallback attempts of those calls
  last,         \* the call that returned most recently, since the latest
                \* call of the caller, with its result
  threads       \* concurrent use: per goroutine, where its Import call is

strVars == <<sPc, sIn, sVN, sLoop, sOut, sOut2>>
impVars == <<stack, stdImporter, created, topCalls, started, stdTotal,
             stdFailed, fbTotal, last>>
thrVars == <<threads>>
vars == <<strVars, impVars, thrVars>>

NoLoop == [nonVN |-> <<>>, endQuote |-> FALSE]
NoOut == [r |-> <<>>, n |-> 0]

StrIdle ==
  /\ sPc = "idle" /\ sIn = <<>> /\ sVN = FALSE
  /\ sLoop = NoLoop /\ sOut = NoOut /\ sOut2 = NoOut

NoLast == [valid |-> FALSE, depth |-> 0, frame |-> NewFrame(<<>>), res |-> NoRes]

ThreadIds == 1..NumThreads

\* a goroutine that is not in a call: the handle it made (0: none), whether
\* its last test of line 43 found the field nil, the handle its last
\* baseline attempt went to
IdleThread ==
  [pc |-> "idle", path |-> <<>>, calls |-> 0, sawNil |-> FALSE,
   mine |-> 0, used |-> 0]

ThrIdle == threads = [t \in ThreadIds |-> IdleThread]

ImpIdle ==
  /\ stack = <<>>
  /\ stdImporter = 0
  /\ created = 0
  /\ topCalls = 0
  /\ started = [p \in PkgPaths |-> 0]
  /\ stdTotal = [p \in PkgPaths |-> 0]
  /\ stdFailed = [p \in PkgPaths |-> 0]
  /\ fbTotal = [p \in PkgPaths |-> 0]
  /\ last = NoLast

(***************************************************************************)
(* The string functions applied to one input.                              *)
(***************************************************************************)
StrInit ==
  /\ sPc = "start" /\ sIn \in Inputs /\ sVN = FALSE
  /\ sLoop = NoLoop /\ sOut = NoOut /\ sOut2 = NoOut
  /\ ImpIdle
  /\ ThrIdle

\* r := isVNPart(sIn)
CallIsVNPart ==
  /\ sPc = "start"
  /\ sVN' = isVNPart(sIn)
  /\ sPc' = "tested"
  /\ UNCHANGED <<sIn, sLoop, sOut, sOut2>>
  /\ UNCHANGED <<impVars, thrVars>>

\* r, n := removeMajorVersionFromPath(sIn)
CallStrip ==
  /\ sPc \in {"start", "tested"}
  /\ sLoop' = StripLoop(Split(sIn), 1, <<>>, FALSE)
  /\ sOut' = removeMajorVersionFromPath(sIn)
  /\ sPc' = "stripped"
  /\ UNCHANGED <<sIn, sVN, sOut2>>
  /\ UNCHANGED <<impVars, thrVars>>

\* r2, n2 := removeMajorVersionFromPath(r)
CallStripAgain ==
  /\ sPc = "stripped"
  /\ sOut2' = removeMajorVersionFromPath(sOut.r)
  /\ sPc' = "restripped"
  /\ UNCHANGED <<sIn, sVN, sLoop, sOut>>
  /\ UNCHANGED <<impVars, thrVars>>

StrNext == CallIsVNPart \/ CallStrip \/ CallStripAgain

StrSpec == StrInit /\ [][StrNext]_vars

(***************************************************************************)
(* mmcImporter.Import, one step at a time.  The innermost activation runs; *)
(* the outcome of every call to a collaborator (the baseline importer,     *)
(* build.Context.Import, ioutil.ReadFile, parser.ParseFile, the checker's  *)
(* own verdict) is chosen freely.                                          *)
(***************************************************************************)
Init == StrIdle /\ ImpIdle /\ ThrIdle

Depth == Len(stack)
Top == stack[Depth]

\* the innermost activation becomes f
SetTop(f) ==
  /\ stack' = [stack EXCEPT ![Depth] = f]
  /\ UNCHANGED last

\* the innermost activation, being f, returns res to its caller: the checker
\* of the enclosing activation, or the user
Return(f, res) ==
  /\ last' = [valid |-> TRUE, depth |-> Depth, frame |-> f, res |-> res]
  /\ stack' = IF Depth > 1
              THEN [SubSeq(stack, 1, Depth - 1) EXCEPT ![Depth - 1].got = res]
              ELSE <<>>

\* the user calls imp.Import(path)
Call ==
  /\ stack = <<>>
  /\ topCalls < MaxCalls
  /\ \E path \in Requests :
       /\ stack' = <<NewFrame(path)>>
       /\ started' = [started EXCEPT ![path] = @ + 1]
  /\ topCalls' = topCalls + 1
  /\ last' = NoLast
  /\ UNCHANGED <<stdImporter, created, stdTotal, stdFailed, fbTotal>>
  /\ UNCHANGED <<strVars, thrVars>>

\* LazyInit, but without the test of line 43: every call makes a new handle
LazyInit_Always ==
  /\ stack # <<>>
  /\ Top.pc = "entry"
  /\ stdImporter' = created + 1
  /\ created' = created + 1
  /\ SetTop([Top EXCEPT !.pc = "std"])
  /\ UNCHANGED <<topCalls, started, stdTotal, stdFailed, fbTotal>>
  /\ UNCHANGED <<strVars, thrVars>>

\* lines 43-45: create the baseline importer on first use
LazyInit ==
  /\ stack # <<>>
  /\ Top.pc = "entry"
  /\ IF stdImporter = 0
     THEN /\ stdImporter' = created + 1
          /\ created' = created + 1
     ELSE UNCHANGED <<stdImporter, created>>
  /\ SetTop([Top EXCEPT !.pc = "std"])
  /\ UNCHANGED <<topCalls, started, stdTotal, stdFailed, fbTotal>>
  /\ UNCHANGED <<strVars, thrVars>>

\* lines 48-52: the baseline attempt; on success its result is returned, on
\* failure the fallback starts with the package's source directory
StdImport ==
  /\ stack # <<>>
  /\ Top.pc = "std"
  /\ \E ok \in BOOLEAN :
       LET res == IF ok THEN [pkg |-> StdPkg(Top.path), err |-> NoErr]
                  ELSE [pkg |-> NilPkg, err |-> "notfound"]
           f == [Top EXCEPT !.stdRes = res, !.used = stdImporter,
                            !.nStd = @ + 1]
       IN  /\ stdTotal' = [stdTotal EXCEPT ![Top.path] =
                             IF Depth = 1 THEN @ + 1 ELSE @]
           /\ stdFailed' = [stdFailed EXCEPT ![Top.path] =
                              IF Depth = 1 /\ ~ok THEN @ + 1 ELSE @]
           /\ IF BaselineSucceeded(res)
              THEN /\ Return(f, res)
                   /\ UNCHANGED fbTotal
              ELSE /\ SetTop([f EXCEPT !.pc = "load",
                                       !.srcDir = SrcDir(Top.path),
                                       !.nFallback = @ + 1])
                   /\ fbTotal' = [fbTotal EXCEPT ![Top.path] =
                                    IF Depth = 1 THEN @ + 1 ELSE @]
  /\ UNCHANGED <<stdImporter, created, topCalls, started>>
  /\ UNCHANGED <<strVars, thrVars>>

\* ListFiles, but a listing failure sends the call back to the baseline
ListFiles_Retry ==
  /\ stack # <<>>
  /\ Top.pc = "load"
  /\ \E ok \in BOOLEAN :
       LET f == [Top EXCEPT !.nList = @ + 1]
       IN  IF ok
           THEN SetTop([f EXCEPT !.pc = "read",
                          !.filePaths = FilePaths(Top.srcDir, GoFiles(Top.path))])
           ELSE SetTop([f EXCEPT !.pc = "std"])
  /\ UNCHANGED <<stdImporter, created, topCalls, started, stdTotal,
                 stdFailed, fbTotal>>
  /\ UNCHANGED <<strVars, thrVars>>

\* lines 54-57, 95-104: list the package's Go files
ListFiles ==
  /\ stack # <<>>
  /\ Top.pc = "load"
  /\ \E ok \in BOOLEAN :
       LET f == [Top EXCEPT !.nList = @ + 1]
       IN  IF ok
           THEN SetTop([f EXCEPT !.pc = "read",
                          !.filePaths = FilePaths(Top.srcDir, GoFiles(Top.path))])
           ELSE Return(f, [pkg |-> NilPkg, err |-> "list"])
  /\ UNCHANGED <<stdImporter, created, topCalls, started, stdTotal,
                 stdFailed, fbTotal>>
  /\ UNCHANGED <<strVars, thrVars>>

\* lines 154-162: read the next file, in the order listed
ReadFile ==
  /\ stack # <<>>
  /\ Top.pc = "read"
  /\ \E ok \in BOOLEAN :
       LET fp == Top.filePaths[Top.nRead + 1]
           f == [Top EXCEPT !.nRead = @ + 1]
       IN  IF ok
           THEN SetTop([f EXCEPT !.fileSrcs = @ \cup {fp},
                          !.pc = IF Top.nRead + 1 = Len(Top.filePaths)
                                 THEN "parse" ELSE "read"])
           ELSE Return(f, [pkg |-> NilPkg, err |-> "read"])
  /\ UNCHANGED <<stdImporter, created, topCalls, started, stdTotal,
                 stdFailed, fbTotal>>
  /\ UNCHANGED <<strVars, thrVars>>

\* ParseFile, but a file that does not parse is skipped and the loop goes on
ParseFile_Continue ==
  /\ stack # <<>>
  /\ Top.pc = "parse"
  /\ \E fp \in Top.fileSrcs \ Top.visited : \E ok \in BOOLEAN :
       LET f == [Top EXCEPT !.nParse = @ + 1,
                            !.visited = @ \cup {fp},
                            !.parseLog = Append(@, [file |-> fp, ok |-> ok])]
       IN  IF ok
           THEN SetTop([f EXCEPT !.pc = "rewrite",
                          !.astf = <<[file |-> fp, imports |-> ImportsOf(fp)]>>])
           ELSE SetTop([f EXCEPT !.pc = IF f.visited = f.fileSrcs
                                        THEN "check" ELSE "parse"])
  /\ UNCHANGED <<stdImporter, created, topCalls, started, stdTotal,
                 stdFailed, fbTotal>>
  /\ UNCHANGED <<strVars, thrVars>>

\* lines 61-65: parse the next entry of the map, in the map's own order
ParseFile ==
  /\ stack # <<>>
  /\ Top.pc = "parse"
  /\ \E fp \in Top.fileSrcs \ Top.visited : \E ok \in BOOLEAN :
       LET f == [Top EXCEPT !.nParse = @ + 1,
                            !.visited = @ \cup {fp},
                            !.parseLog = Append(@, [file |-> fp, ok |-> ok])]
       IN  IF ok
           THEN SetTop([f EXCEPT !.pc = "rewrite",
                          !.astf = <<[file |-> fp, imports |-> ImportsOf(fp)]>>])
           ELSE Return(f, [pkg |-> NilPkg, err |-> "parse"])
  /\ UNCHANGED <<stdImporter, created, topCalls, started, stdTotal,
                 stdFailed, fbTotal>>
  /\ UNCHANGED <<strVars, thrVars>>

\* lines 69-80: overwrite every import literal of the parsed file with its
\* stripped text and append the file to astFiles
Rewrite ==
  /\ stack # <<>>
  /\ Top.pc = "rewrite"
  /\ LET tree == [Top.astf[1] EXCEPT !.imports = RewriteImports(@)]
     IN  SetTop([Top EXCEPT !.astf = <<>>,
                   !.astFiles = Append(@, tree),
                   !.pc = IF Top.visited = Top.fileSrcs
                          THEN "check" ELSE "parse"])
  /\ UNCHANGED <<stdImporter, created, topCalls, started, stdTotal,
                 stdFailed, fbTotal>>
  /\ UNCHANGED <<strVars, thrVars>>

\* lines 83-87: conf.Check(path, fset, astFiles, nil) is entered, with this
\* importer as conf.Importer
StartCheck ==
  /\ stack # <<>>
  /\ Top.pc = "check"
  /\ SetTop([Top EXCEPT !.nCheck = @ + 1,
               !.checked = Top.astFiles,
               !.todo = ImportDecls(Top.astFiles),
               !.pc = "checking"])
  /\ UNCHANGED <<stdImporter, created, topCalls, started, stdTotal,
                 stdFailed, fbTotal>>
  /\ UNCHANGED <<strVars, thrVars>>

\* the checker meets the next import declaration: a literal that is no
\* import path is an error; a path already imported is not imported again;
\* any other is imported through conf.Importer, this importer
CheckImport ==
  /\ stack # <<>>
  /\ Top.pc = "checking"
  /\ Top.todo # <<>>
  /\ LET lit == Head(Top.todo)
         f == [Top EXCEPT !.todo = Tail(@)]
     IN  IF ~ValidImportLit(lit)
         THEN /\ Return(f, CheckResult(Top.path, FALSE))
              /\ UNCHANGED started
         ELSE IF Unquote(lit) \in Top.impMap
         THEN /\ SetTop(f)
              /\ UNCHANGED started
         ELSE /\ Depth < MaxDepth
              /\ stack' = Append([stack EXCEPT ![Depth] =
                                    [f EXCEPT !.pc = "importing",
                                              !.asked = <<Unquote(lit)>>,
                                              !.nested = Append(@, Unquote(lit))]],
                                 NewFrame(Unquote(lit)))
              /\ UNCHANGED <<started, last>>
  /\ UNCHANGED <<stdImporter, created, topCalls, stdTotal, stdFailed, fbTotal>>
  /\ UNCHANGED <<strVars, thrVars>>

\* the checker needs one more nested Import than the stack has room for:
\* the Go runtime ends the program (stack overflow is fatal, no recover),
\* and no activation returns any more
StackOverflow ==
  /\ stack # <<>>
  /\ Top.pc = "checking"
  /\ Top.todo # <<>>
  /\ ValidImportLit(Head(Top.todo))
  /\ Unquote(Head(Top.todo)) \notin Top.impMap
  /\ Depth = MaxDepth
  /\ SetTop([Top EXCEPT !.pc = "overflow"])
  /\ UNCHANGED <<stdImporter, created, topCalls, started, stdTotal,
                 stdFailed, fbTotal>>
  /\ UNCHANGED <<strVars, thrVars>>

\* the nested Import has returned to the checker: an error ends the check
\* (conf.Error is nil, the first error is the last)
ImportReturned ==
  /\ stack # <<>>
  /\ Top.pc = "importing"
  /\ Top.got # NoRes
  /\ LET f == [Top EXCEPT !.got = NoRes, !.asked = <<>>]
     IN  IF Top.got.err # NoErr
         THEN Return(f, CheckResult(Top.path, FALSE))
         ELSE SetTop([f EXCEPT !.pc = "checking",
                               !.impMap = @ \cup {Top.asked[1]}])
  /\ UNCHANGED <<stdImporter, created, topCalls, started, stdTotal,
                 stdFailed, fbTotal>>
  /\ UNCHANGED <<strVars, thrVars>>

\* all imports are resolved: the checker checks the package's declarations
\* and conf.Check returns; line 87 returns what it returned
FinishCheck ==
  /\ stack # <<>>
  /\ Top.pc = "checking"
  /\ Top.todo = <<>>
  /\ \E ok \in BOOLEAN : Return(Top, CheckResult(Top.path, ok))
  /\ UNCHANGED <<stdImporter, created, topCalls, started, stdTotal,
                 stdFailed, fbTotal>>
  /\ UNCHANGED <<strVars, thrVars>>

Next ==
  \/ Call
  \/ LazyInit
  \/ StdImport
  \/ ListFiles
  \/ ReadFile
  \/ ParseFile
  \/ Rewrite
  \/ StartCheck
  \/ CheckImport
  \/ ImportReturned
  \/ FinishCheck
  \/ StackOverflow

Spec == Init /\ [][Next]_vars

\* the steps of a call in progress: Import runs synchronously, so a call
\* that can take a step takes it
Progress ==
  \/ LazyInit
  \/ StdImport
  \/ ListFiles
  \/ ReadFile
  \/ ParseFile
  \/ Rewrite
  \/ StartCheck
  \/ CheckImport
  \/ ImportReturned
  \/ FinishCheck
  \/ StackOverflow

LiveSpec == Init /\ [][Next]_vars /\ WF_vars(Progress)

(***************************************************************************)
(* Import called by several goroutines on one importer, with nothing to    *)
(* keep them apart.  Lines 43-45 are a read of imp.stdImporter, a call of  *)
(* importer.ForCompiler and a write of imp.stdImporter; line 48 reads the  *)
(* field again.  Lines 52-87 write nothing the goroutines share (the       *)
(* nested calls of the checker find the field set), and are one step here. *)
(***************************************************************************)
ConcInit == StrIdle /\ ImpIdle /\ ThrIdle

othVars == <<stack, topCalls, started, stdTotal, stdFailed, fbTotal, last>>

\* goroutine t calls imp.Import(path)
TCall(t) ==
  /\ threads[t].pc = "idle"
  /\ threads[t].calls < MaxCalls
  /\ \E path \in Requests :
       threads' = [threads EXCEPT ![t].pc = "test", ![t].path = path,
                                  ![t].calls = @ + 1, ![t].used = 0]
  /\ UNCHANGED <<stdImporter, created, othVars, strVars>>

\* line 43: t reads the field and compares it with nil
TTestNil(t) ==
  /\ threads[t].pc = "test"
  /\ threads' = [threads EXCEPT ![t].sawNil = (stdImporter = 0),
                                ![t].pc = IF stdImporter = 0 THEN "make"
                                          ELSE "std"]
  /\ UNCHANGED <<stdImporter, created, othVars, strVars>>

\* line 44, right hand side: importer.ForCompiler returns a new handle
TMake(t) ==
  /\ threads[t].pc = "make"
  /\ created' = created + 1
  /\ threads' = [threads EXCEPT ![t].mine = created + 1, ![t].pc = "store"]
  /\ UNCHANGED <<stdImporter, othVars, strVars>>

\* TStore, but the handle goes to a new local variable (:= for =)
TStore_Shadowed(t) ==
  /\ threads[t].pc = "store"
  /\ threads' = [threads EXCEPT ![t].pc = "std"]
  /\ UNCHANGED <<stdImporter, created, othVars, strVars>>

\* line 44, assignment: t writes its handle to the field
TStore(t) ==
  /\ threads[t].pc = "store"
  /\ stdImporter' = threads[t].mine
  /\ threads' = [threads EXCEPT ![t].pc = "std"]
  /\ UNCHANGED <<created, othVars, strVars>>

\* lines 48-50: the baseline attempt, with the handle the field holds now
TStdImport(t) ==
  /\ threads[t].pc = "std"
  /\ \E ok \in BOOLEAN :
       threads' = [threads EXCEPT ![t].used = stdImporter,
                                  ![t].pc = IF ok THEN "idle" ELSE "fallback"]
  /\ UNCHANGED <<stdImporter, created, othVars, strVars>>

\* lines 52-87: the fallback, to its return
TFallback(t) ==
  /\ threads[t].pc = "fallback"
  /\ threads' = [threads EXCEPT ![t].pc = "idle"]
  /\ UNCHANGED <<stdImporter, created, othVars, strVars>>

ConcNext ==
  \E t \in ThreadIds :
    \/ TCall(t)
    \/ TTestNil(t)
    \/ TMake(t)
    \/ TStore(t)
    \/ TStdImport(t)
    \/ TFallback(t)

ConcSpec == ConcInit /\ [][ConcNext]_vars

(***************************************************************************)
(* Properties of the string functions.                                     *)
(***************************************************************************)
\* s without one trailing quote, if it has one
DropEndQuote(s) == IF HasQuoteSuffix(s) THEN SubSeq(s, 1, Len(s) - 1) ELSE s

\* the letter v followed by one or more decimal digits and nothing else,
\* after removing at most one trailing quote
VersionSegment(s) ==
  LET t == DropEndQuote(s)
  IN  /\ Len(t) >= 2
      /\ t[1] = "v"
      /\ \A i \in 2..Len(t) : t[i] \in DigitChars

\* the parts of a path that are not version segments, in order
RECURSIVE NonVersionParts(_)
NonVersionParts(parts) ==
  IF Len(parts) = 0 THEN <<>>
  ELSE IF VersionSegment(Head(parts)) THEN NonVersionParts(Tail(parts))
  ELSE <<Head(parts)>> \o NonVersionParts(Tail(parts))

LastPart(s) == Split(s)[Len(Split(s))]

RECURSIVE CountQuotes(_)
CountQuotes(s) ==
  IF Len(s) = 0 THEN 0
  ELSE (IF Head(s) = Quote THEN 1 ELSE 0) + CountQuotes(Tail(s))

\* C2: isVNPart(s) is true if and only if s, after removing at most one
\* trailing quote, is exactly v followed by one or more decimal digits; so
\* it is false for s containing '/', for s with characters after the digits
\* and for s with a sign or a blank between v and the digits.
C2_ExactVersionSegment ==
  sPc = "tested" => (sVN <=> VersionSegment(sIn))

\* C3: a path none of whose segments is in its entirety a version segment
\* is returned unchanged, with removed count 0.
C3_NoVersionUnchanged ==
  (/\ sPc = "stripped"
   /\ \A i \in 1..Len(Split(sIn)) : ~VersionSegment(Split(sIn)[i]))
  => (sOut.r = sIn /\ sOut.n = 0)

\* C4: the result is exactly the segments that are not version segments, in
\* their original order, rejoined with '/'.
C4_KeepsExactlyNonVersion ==
  sPc = "stripped" => sOut.r = Join(NonVersionParts(Split(sIn)))

\* C5: stripping the result of a strip returns it unchanged, with removed
\* count 0.
C5_Idempotent ==
  sPc = "restripped" => (sOut2.r = sOut.r /\ sOut2.n = 0)

\* a second strip after a first one that dropped the last segment and
\* re-appended its closing quote
C5_Witness ==
  /\ sPc = "restripped"
  /\ sLoop.endQuote
  /\ sOut.n > 0
  /\ Len(sLoop.nonVN) > 0

C12_RemovedCount ==
  sPc = "stripped" =>
    /\ Len(sOut.r) + sOut.n = Len(sIn)
    /\ sOut.n >= 0
    /\ sOut.n = 0 <=> Len(sLoop.nonVN) = Len(Split(sIn))

\* a strip that dropped the last segment and put its closing quote back,
\* and one more segment before it
C12_Witness ==
  /\ sPc = "stripped"
  /\ sLoop.endQuote
  /\ Len(sLoop.nonVN) + 2 <= Len(Split(sIn))
  /\ sOut.n > 0

(***************************************************************************)
(* Properties of Import.                                                   *)
(***************************************************************************)
\* the activations in progress and the one that returned last
Frames == SeqToSet(stack) \cup (IF last.valid THEN {last.frame} ELSE {})

\* the caller's activation of Import(p), while it has not made its baseline
\* attempt
BeforeBaseline(p) ==
  IF stack # <<>> /\ stack[1].path = p /\ stack[1].pc \in {"entry", "std"}
  THEN 1 ELSE 0

\* C1: a call whose baseline attempt succeeded returns the baseline's
\* package with no error, and made no call to the source lister, the file
\* reader, the parser or the checker.
C1_BaselineShortCircuit ==
  (last.valid /\ last.frame.stdRes.err = NoErr) =>
    /\ last.res = [pkg |-> StdPkg(last.frame.path), err |-> NoErr]
    /\ last.frame.nFallback = 0
    /\ last.frame.nList = 0
    /\ last.frame.nRead = 0
    /\ last.frame.nParse = 0
    /\ last.frame.nCheck = 0

\* a call has returned the baseline's package
C1_Witness ==
  /\ last.valid
  /\ last.frame.stdRes.err = NoErr
  /\ last.res.pkg = StdPkg(last.frame.path)
  /\ last.frame.nStd = 1

\* C7: every return of Import carries either a complete package and no
\* error, or an error and no package.
C7_PackageOrError ==
  last.valid =>
    \/ last.res.err = NoErr /\ last.res.pkg.kind \in {"std", "checked"}
    \/ last.res.err # NoErr /\ last.res.pkg = NilPkg

\* C8: every call makes exactly one baseline attempt and at most one
\* fallback attempt, the fallback exactly when the baseline failed; a failed
\* fallback returns its error with no further attempt; nothing is
\* remembered between calls, so every call the caller makes for a path
\* makes its own baseline attempt and, when that fails, its own fallback
\* attempt.
C8_OneAttemptEach ==
  /\ \A f \in Frames :
       /\ f.nStd <= 1
       /\ f.nFallback <= 1
       /\ f.nFallback = 1 <=> (f.nStd = 1 /\ f.stdRes.err # NoErr)
       /\ f.nList <= f.nFallback
       /\ f.nCheck <= f.nFallback
  /\ last.valid =>
       /\ last.frame.nStd = 1
       /\ last.frame.stdRes.err # NoErr =>
            (last.frame.nFallback = 1 /\ last.frame.nList = 1)
       /\ last.res.err \in {"list", "read", "parse"} => last.res.pkg = NilPkg
  /\ \A p \in PkgPaths :
       /\ stdTotal[p] = started[p] - BeforeBaseline(p)
       /\ fbTotal[p] = stdFailed[p]

\* the same path was asked for twice, and both calls went through the
\* baseline and the fallback, which failed the second time
C8_Witness ==
  /\ stack = <<>>
  /\ topCalls = 2
  /\ \E p \in Requests :
       /\ started[p] = 2
       /\ stdTotal[p] = 2
       /\ fbTotal[p] = 2
       /\ last.frame.path = p
  /\ last.res.err \in {"list", "read", "parse", "check"}

\* the parser calls of an activation before its last one all succeeded
EarlierParsesOK(f) ==
  \A i \in 1..(Len(f.parseLog) - 1) : f.parseLog[i].ok

\* C9: the fallback lists and reads, then parses, then checks, and the
\* first failure ends it: after a failed listing or read neither the parser
\* nor the checker is called; after a failed parse no further file is
\* parsed and the checker is not called; the error is what Import returns.
C9_LoadParseCheckOrder ==
  /\ \A f \in Frames :
       /\ f.nRead > 0 => f.nList = 1
       /\ f.nParse > 0 =>
            /\ f.nRead = Len(f.filePaths)
            /\ f.fileSrcs = SeqToSet(f.filePaths)
       /\ f.nParse = Len(f.parseLog)
       /\ EarlierParsesOK(f)
       /\ f.nCheck > 0 =>
            /\ f.visited = f.fileSrcs
            /\ \A i \in DOMAIN f.parseLog : f.parseLog[i].ok
  /\ \A i \in DOMAIN stack :
       \A j \in DOMAIN stack[i].parseLog : stack[i].parseLog[j].ok
  /\ last.valid =>
       /\ last.res.err \in {"list", "read"} =>
            /\ last.frame.nParse = 0
            /\ last.frame.nCheck = 0
            /\ last.res.pkg = NilPkg
       /\ last.res.err = "list" => last.frame.nRead = 0
       /\ last.res.err = "parse" =>
            /\ last.frame.nCheck = 0
            /\ last.res.pkg = NilPkg
            /\ ~last.frame.parseLog[Len(last.frame.parseLog)].ok
       /\ (last.frame.parseLog # <<>>
           /\ ~last.frame.parseLog[Len(last.frame.parseLog)].ok)
            => last.res.err = "parse"

\* a call returned a parse error on its first file, with another file read
\* and never parsed
C9_Witness ==
  /\ last.valid
  /\ last.res.err = "parse"
  /\ last.frame.nParse = 1
  /\ Cardinality(last.frame.fileSrcs) = 2
  /\ last.frame.nCheck = 0

\* C10: when the checker is entered, the files it is given are the files
\* read for the package, each once, and every import literal of every one
\* of them is the stripped form of the literal as written.
C10_CheckerSeesRewritten ==
  \A f \in Frames :
    f.nCheck > 0 =>
      /\ {f.checked[i].file : i \in DOMAIN f.checked} = f.fileSrcs
      /\ f.fileSrcs = SeqToSet(FilePaths(f.path, GoFiles(f.path)))
      /\ Len(f.checked) = Cardinality(f.fileSrcs)
      /\ \A i \in DOMAIN f.checked :
           LET written == ImportsOf(f.checked[i].file)
           IN  /\ Len(f.checked[i].imports) = Len(written)
               /\ \A k \in DOMAIN written :
                    f.checked[i].imports[k] =
                      removeMajorVersionFromPath(written[k]).r

\* the checker is at work on two files, with a literal that stripping
\* changed and a literal that it left as written
C10_Witness ==
  /\ stack # <<>>
  /\ stack[1].pc = "checking"
  /\ Len(stack[1].checked) = 2
  /\ \E i \in DOMAIN stack[1].checked :
       LET written == ImportsOf(stack[1].checked[i].file)
       IN  /\ \E k \in DOMAIN written : stack[1].checked[i].imports[k] # written[k]
           /\ \E k \in DOMAIN written : stack[1].checked[i].imports[k] = written[k]

\* C11: whatever the import graph, cycles among packages that need the
\* fallback and self-imports after stripping included, every call of Import
\* eventually returns: a call in progress can always take its next step,
\* and so, running on, comes to its return.
C11_EveryCallReturns == stack # <<>> => ENABLED Progress

\* C13: with one caller at a time, nested calls of the checker included,
\* the baseline handle is created at most once, by the first call; once set
\* the field always holds that handle, and every baseline attempt goes to it.
C13_OneHandle ==
  /\ created <= 1
  /\ stdImporter = created
  /\ \A f \in Frames : f.pc # "entry" => stdImporter = 1
  /\ \A f \in Frames : f.nStd = 1 => f.used = 1

\* the second call of the user, and within it a nested call of the
\* checker, have made their baseline attempts with the handle of the first
C13_Witness ==
  /\ topCalls = 2
  /\ Depth >= 2
  /\ stack[1].nStd = 1 /\ stack[1].used = 1
  /\ stack[2].nStd = 1 /\ stack[2].used = 1
  /\ created = 1

\* the goroutines that have written a handle to the field
Stored == {t \in ThreadIds : threads[t].mine # 0 /\ threads[t].pc # "store"}

\* C14: the lazy creation of the baseline handle is not safe when several
\* goroutines use a fresh importer at once.  Every goroutine whose test
\* found the field nil makes a handle of its own and writes it, so as many
\* handles are made as goroutines found it nil; the field keeps only one of
\* those written, the others are overwritten; no baseline attempt is made
\* without a handle.
C14_RacyLazyInit ==
  /\ created = Cardinality({t \in ThreadIds : threads[t].mine # 0})
  /\ \A t \in ThreadIds : threads[t].mine # 0 => threads[t].mine <= created
  /\ \A t, u \in ThreadIds :
       (t # u /\ threads[t].mine # 0) => threads[t].mine # threads[u].mine
  /\ \A t \in ThreadIds : threads[t].pc \in {"make", "store"} => threads[t].sawNil
  /\ (stdImporter = 0) <=> (Stored = {})
  /\ stdImporter # 0 => \E t \in Stored : stdImporter = threads[t].mine
  /\ \A t \in ThreadIds :
       /\ threads[t].pc \in {"std", "fallback"} => stdImporter # 0
       /\ threads[t].pc = "fallback" => threads[t].used # 0
       /\ threads[t].used # 0 => \E u \in ThreadIds : threads[t].used = threads[u].mine

\* two goroutines both found the field nil, both made a handle and both
\* wrote it: two handles exist, and the one written first is gone from the
\* field
C14_Witness ==
  \E t, u \in ThreadIds :
    /\ t # u
    /\ threads[t].sawNil /\ threads[u].sawNil
    /\ t \in Stored /\ u \in Stored
    /\ created >= 2
    /\ stdImporter = threads[u].mine
    /\ stdImporter # threads[t].mine
    /\ threads[t].used = threads[t].mine

\* the import literals of the files handed to the checker, as written
RECURSIVE WrittenDecls(_)
WrittenDecls(trees) ==
  IF Len(trees) = 0 THEN <<>>
  ELSE ImportsOf(Head(trees).file) \o WrittenDecls(Tail(trees))

\* the import path a literal stands for once stripped
StrippedPath(lit) == Unquote(removeMajorVersionFromPath(lit).r)

\* C15: in a fallback check every import the checker meets is resolved by a
\* nested call of Import on the same importer; a nested call makes its
\* baseline attempt before any fallback; the path it is given is the
\* stripped form of the import literal and has no version segment; the path
\* the caller gave is not stripped, and names the source directory as it is.
C15_NestedImports ==
  /\ \A f \in Frames :
       f.nCheck = 1 =>
         LET written == WrittenDecls(f.checked)
         IN  /\ \A k \in 1..(Len(written) - Len(f.todo)) :
                  StrippedPath(written[k]) \in SeqToSet(f.nested)
             /\ \A k \in DOMAIN f.nested :
                  /\ \E j \in DOMAIN written : f.nested[k] = StrippedPath(written[j])
                  /\ \A j \in DOMAIN Split(f.nested[k]) :
                       ~VersionSegment(Split(f.nested[k])[j])
  /\ \A i \in 2..Depth :
       /\ stack[i - 1].pc = "importing"
       /\ stack[i - 1].asked = <<stack[i].path>>
       /\ stack[i].path = stack[i - 1].nested[Len(stack[i - 1].nested)]
       /\ stack[i].used \in {0, stdImporter}
  /\ \A f \in Frames :
       /\ f.nFallback <= f.nStd
       /\ f.srcDir # <<>> => f.srcDir = f.path
  /\ stack # <<>> => stack[1].path \in Requests

====
